---------------------------- MODULE Spec2Model ----------------------------
(***************************************************************************)
(* A model of the NeoHub client (src/neohub/neohub.py): the token held by  *)
(* one NeoHub instance, the calls its callers have in progress, the record *)
(* decoders Device.from_dict and LiveInfoDevice.from_dict, and the status  *)
(* protocol of login, get_data and the four command operations.            *)
(*                                                                         *)
(* A call is split where another thread of the caller can run: between the *)
(* "if not self.token" test and the later read of self.token that builds   *)
(* the request, and at the network round trip of _form_post_request.       *)
(*                                                                         *)
(* The dashboard's helpers get_device_type and is_valid_temperature and    *)
(* its pass get_problematic_zones (src/app.py) are modelled on top of the  *)
(* client: SpecZone takes one zone record through the decoder and the      *)
(* helpers, SpecApp takes the dashboard through login and one pass.        *)
(***************************************************************************)
EXTENDS Integers, Sequences, FiniteSets, TLC

(***************************************************************************)
(* Bounds of the model.                                                    *)
(***************************************************************************)
NumCalls == 2     \* calls the callers may have in progress at once
MaxRecords == 3   \* longest device list / zone list in one response
MaxListLen == 2   \* longest list in a list field of a zone record
MaxDevices == 2   \* longest device list the dashboard goes through
MaxZones == 2     \* longest zone list a device answers the dashboard with

(***************************************************************************)
(* JSON / Python values.  Every scalar or list value is a record of one    *)
(* shape, tagged by t; a JSON object is [t |-> "obj", o |-> its mapping].  *)
(* A float is held in thousandths (21.5 is 21500); nan and inf are floats  *)
(* named in s.  The elements of a list are values again.                   *)
(***************************************************************************)
JNull == [t |-> "null", s |-> "", n |-> 0, b |-> FALSE, l |-> <<>>]
JStr(x) == [t |-> "str", s |-> x, n |-> 0, b |-> FALSE, l |-> <<>>]
JInt(k) == [t |-> "int", s |-> "", n |-> k, b |-> FALSE, l |-> <<>>]
JFloat(m) == [t |-> "float", s |-> "", n |-> m, b |-> FALSE, l |-> <<>>]
JBool(v) == [t |-> "bool", s |-> "", n |-> 0, b |-> v, l |-> <<>>]
JList(q) == [t |-> "list", s |-> "", n |-> 0, b |-> FALSE, l |-> q]
JObj(f) == [t |-> "obj", o |-> f]

\* Python truth value of a value ("if not self.token", "if zone.LOW_BATTERY").
Truthy(v) ==
  CASE v.t = "null" -> FALSE
    [] v.t = "bool" -> v.b
    [] v.t = "int" -> v.n # 0
    [] v.t = "float" -> v.n # 0 \/ v.s # ""
    [] v.t = "str" -> v.s # ""
    [] v.t = "list" -> v.l # <<>>
    [] v.t = "obj" -> DOMAIN v.o # {}

(***************************************************************************)
(* float(text) of Python for decimal literals: optional surrounding        *)
(* blanks, an optional sign, then either one of the names nan / inf /      *)
(* infinity in any letter case, or digits with an optional point (at least *)
(* one digit), digits optionally grouped by single underscores, and an     *)
(* optional exponent.  The result is [ok, kind, milli]: ok is FALSE where  *)
(* float() raises ValueError; milli is the value in thousandths, cut       *)
(* toward zero.  A magnitude beyond Saturated thousandths, and a literal   *)
(* of more than nine significant digits, is held at Saturated.             *)
(***************************************************************************)
Digits == {"0", "1", "2", "3", "4", "5", "6", "7", "8", "9"}

DigitVal(c) ==
  CASE c = "0" -> 0 [] c = "1" -> 1 [] c = "2" -> 2 [] c = "3" -> 3
    [] c = "4" -> 4 [] c = "5" -> 5 [] c = "6" -> 6 [] c = "7" -> 7
    [] c = "8" -> 8 [] c = "9" -> 9

Ch(s, i) == SubSeq(s, i, i)

\* The first place in s of a character of the set cs, 0 where there is none.
FirstAt(s, cs) ==
  LET ps == {i \in 1..Len(s) : Ch(s, i) \in cs}
  IN IF ps = {} THEN 0 ELSE CHOOSE i \in ps : \A j \in ps : i <= j

\* s without its leading and trailing blanks.
Strip(s) ==
  LET inner == {i \in 1..Len(s) : Ch(s, i) # " "}
  IN IF inner = {} THEN ""
     ELSE SubSeq(s, CHOOSE i \in inner : \A j \in inner : i <= j,
                    CHOOSE i \in inner : \A j \in inner : j <= i)

\* The letters float() reads without regard to case.
LowerCh(c) ==
  CASE c = "A" -> "a" [] c = "E" -> "e" [] c = "F" -> "f" [] c = "I" -> "i"
    [] c = "N" -> "n" [] c = "T" -> "t" [] c = "Y" -> "y" [] OTHER -> c

\* s is the given lower-case name in some letter case.
IsName(s, name) ==
  /\ Len(s) = Len(name)
  /\ \A i \in 1..Len(s) : LowerCh(Ch(s, i)) = Ch(name, i)

\* Digits, where an underscore may stand between two digits.
Grouped(s) ==
  \A i \in 1..Len(s) :
    \/ Ch(s, i) \in Digits
    \/ /\ Ch(s, i) = "_"
       /\ 1 < i /\ i < Len(s)
       /\ Ch(s, i - 1) \in Digits /\ Ch(s, i + 1) \in Digits

\* The digits of s, and those from its first digit that is not 0 on.
DigitCount(s) == Cardinality({i \in 1..Len(s) : Ch(s, i) \in Digits})

SignificantCount(s) ==
  Cardinality({i \in 1..Len(s) :
                 Ch(s, i) \in Digits /\ \E j \in 1..i : Ch(s, j) \in Digits \ {"0"}})

RECURSIVE Pow10(_)
Pow10(n) == IF n <= 0 THEN 1 ELSE 10 * Pow10(n - 1)

\* The magnitude beyond which the model keeps no more detail.
Saturated == Pow10(9)

\* The number the digits of the first n characters of s write (underscores
\* are passed over).
RECURSIVE DigitsValueUpTo(_, _)
DigitsValueUpTo(s, n) ==
  IF n = 0 THEN 0
  ELSE IF Ch(s, n) \in Digits THEN 10 * DigitsValueUpTo(s, n - 1) + DigitVal(Ch(s, n))
  ELSE DigitsValueUpTo(s, n - 1)

DigitsValue(s) ==
  IF SignificantCount(s) > 9 THEN Saturated ELSE DigitsValueUpTo(s, Len(s))

\* d * 10^k, cut toward zero, for a d that is not negative.
Scale(d, k) ==
  IF d = 0 THEN 0
  ELSE IF k > 6 \/ (k >= 0 /\ d > Saturated \div Pow10(k)) THEN Saturated
  ELSE IF k >= 0 THEN d * Pow10(k)
  ELSE IF k < 0 - 9 THEN 0
  ELSE d \div Pow10(0 - k)

\* The mantissa and the exponent of an unsigned literal.
Mantissa(u) ==
  IF FirstAt(u, {"e", "E"}) = 0 THEN u ELSE SubSeq(u, 1, FirstAt(u, {"e", "E"}) - 1)

Exponent(u) ==
  IF FirstAt(u, {"e", "E"}) = 0 THEN "" ELSE SubSeq(u, FirstAt(u, {"e", "E"}) + 1, Len(u))

Unsign(s) == IF Len(s) > 0 /\ Ch(s, 1) \in {"+", "-"} THEN SubSeq(s, 2, Len(s)) ELSE s

Negative(s) == Len(s) > 0 /\ Ch(s, 1) = "-"

\* The value of an exponent text (one of more than three significant digits
\* counts as 1000).
ExponentValue(ex) ==
  IF SignificantCount(ex) > 3 THEN (IF Negative(ex) THEN 0 - Pow10(3) ELSE Pow10(3))
  ELSE IF Negative(ex) THEN 0 - DigitsValueUpTo(ex, Len(ex))
  ELSE DigitsValueUpTo(ex, Len(ex))

\* The parts of a mantissa before and after its point.
PointAt(s) == FirstAt(s, {"."})

IntPart(m) == IF PointAt(m) = 0 THEN m ELSE SubSeq(m, 1, PointAt(m) - 1)

FracPart(m) == IF PointAt(m) = 0 THEN "" ELSE SubSeq(m, PointAt(m) + 1, Len(m))

FloatFail == [ok |-> FALSE, kind |-> "none", milli |-> 0]

\* A literal of integer part ip, fraction fp and exponent text ex (hasExp
\* where there is an "e").
Literal(ip, fp, hasExp, ex) ==
  IF /\ Grouped(ip) /\ Grouped(fp) /\ Len(ip) + Len(fp) > 0
     /\ (hasExp => (Grouped(Unsign(ex)) /\ Len(Unsign(ex)) > 0))
  THEN [ok |-> TRUE, kind |-> "num",
        milli |-> Scale(DigitsValue(ip \o fp), 3 - DigitCount(fp) + ExponentValue(ex))]
  ELSE FloatFail

UnsignedFloat(u) ==
  IF IsName(u, "nan") THEN [ok |-> TRUE, kind |-> "nan", milli |-> 0]
  ELSE IF IsName(u, "inf") \/ IsName(u, "infinity")
    THEN [ok |-> TRUE, kind |-> "inf", milli |-> 0]
  ELSE Literal(IntPart(Mantissa(u)), FracPart(Mantissa(u)),
               FirstAt(u, {"e", "E"}) # 0, Exponent(u))

WithSign(r, neg) == IF r.ok /\ neg THEN [r EXCEPT !.milli = 0 - @] ELSE r

PyFloat(text) == WithSign(UnsignedFloat(Unsign(Strip(text))), Negative(Strip(text)))

(***************************************************************************)
(* Device (src/neohub/neohub.py lines 12-33).                              *)
(***************************************************************************)
DeviceFields ==
  {"address", "deviceid", "devicename", "hub_type", "online", "type", "version",
   "share_name", "share_id", "tempformat", "timezone", "away", "holiday",
   "holidayend"}

\* Device.from_dict: ok is FALSE where it raises (data has no .items()).
Device_from_dict(data) ==
  IF data.t # "obj" THEN [ok |-> FALSE, value |-> JNull]
  ELSE [ok |-> TRUE,
        value |-> JObj([k \in DeviceFields |->
                          IF k \in DOMAIN data.o THEN data.o[k] ELSE JNull])]

(***************************************************************************)
(* LiveInfoDevice (src/neohub/neohub.py lines 35-113).                     *)
(***************************************************************************)
\* The dataclass fields with their declared defaults (lines 37-82).
LiveInfoDefaults ==
  [HEAT_ON |-> JBool(FALSE), CURRENT_FLOOR_TEMPERATURE |-> JFloat(0),
   STANDBY |-> JBool(FALSE), MANUAL_OFF |-> JBool(FALSE), TIMER_ON |-> JBool(FALSE),
   WINDOW_OPEN |-> JBool(FALSE), AVAILABLE_MODES |-> JNull, WRITE_COUNT |-> JInt(0),
   FLOOR_LIMIT |-> JBool(FALSE), DATE |-> JNull, HEAT_MODE |-> JBool(FALSE),
   OFFLINE |-> JBool(FALSE), HOLIDAY |-> JBool(FALSE), MODELOCK |-> JBool(FALSE),
   DEVICE_ID |-> JNull, RECENT_TEMPS |-> JNull, COOL_ON |-> JBool(FALSE),
   RELATIVE_HUMIDITY |-> JInt(0), HOLD_COOL |-> JFloat(0), AWAY |-> JBool(FALSE),
   TIMECLOCK |-> JBool(FALSE), TEMPORARY_SET_FLAG |-> JBool(FALSE),
   PRG_TIMER |-> JBool(FALSE), LOCK |-> JBool(FALSE), MODULATION_LEVEL |-> JInt(0),
   HC_MODE |-> JNull, SET_TEMP |-> JNull, LOW_BATTERY |-> JBool(FALSE),
   COOL_TEMP |-> JFloat(0), HOLD_ON |-> JBool(FALSE), HOLD_OFF |-> JBool(FALSE),
   ZONE_NAME |-> JNull, HOLD_TIME |-> JNull, COOL_MODE |-> JBool(FALSE),
   HOLD_TEMP |-> JFloat(0), PREHEAT_ACTIVE |-> JBool(FALSE),
   ACTIVE_PROFILE |-> JInt(0), SWITCH_DELAY_LEFT |-> JNull, PIN_NUMBER |-> JNull,
   FAN_SPEED |-> JNull, ACTUAL_TEMP |-> JNull, TIME |-> JNull,
   ACTIVE_LEVEL |-> JInt(0), FAN_CONTROL |-> JNull, PRG_TEMP |-> JFloat(0),
   THERMOSTAT |-> JNull]

LiveInfoFields == DOMAIN LiveInfoDefaults

\* The fields from_dict converts from text to float (line 96).
FloatFields ==
  {"CURRENT_FLOOR_TEMPERATURE", "HOLD_COOL", "COOL_TEMP", "HOLD_TEMP", "PRG_TEMP"}

\* A conversion that leaves the text it cannot parse as it is.
CoerceFloatKeepsBadText(v) ==
  IF v.t # "str" THEN v
  ELSE LET r == PyFloat(v.s)
       IN IF ~r.ok THEN v
          ELSE IF r.kind = "num" THEN JFloat(r.milli)
          ELSE [t |-> "float", s |-> r.kind, n |-> 0, b |-> FALSE, l |-> <<>>]

\* Lines 97-101: a str value becomes float(value), or 0.0 where float() raises;
\* a value that is no str is left as it is.  nan and inf are kept as text tags.
CoerceFloat(v) ==
  IF v.t # "str" THEN v
  ELSE LET r == PyFloat(v.s)
       IN IF ~r.ok THEN JFloat(0)
          ELSE IF r.kind = "num" THEN JFloat(r.milli)
          ELSE [t |-> "float", s |-> r.kind, n |-> 0, b |-> FALSE, l |-> <<>>]

\* Lines 92-111: the keyword arguments from_dict passes to the constructor.
KnownFields(o) ==
  LET kept == DOMAIN o \cap LiveInfoFields
      conv(k) ==
        IF k \in FloatFields THEN CoerceFloat(o[k])
        ELSE IF k = "RECENT_TEMPS" /\ o[k].t = "str" THEN JList(<<o[k]>>)
        ELSE o[k]
  IN [k \in kept \cup {"RECENT_TEMPS", "AVAILABLE_MODES"} |->
        IF k \in kept THEN conv(k) ELSE JList(<<>>)]

\* Lines 84-88: __post_init__ replaces a None list field by the empty list.
PostInit(z) ==
  [k \in DOMAIN z |->
     IF k \in {"AVAILABLE_MODES", "RECENT_TEMPS"} /\ z[k].t = "null"
     THEN JList(<<>>) ELSE z[k]]

\* LiveInfoDevice.from_dict: ok is FALSE where it raises (data has no .items()).
LiveInfoDevice_from_dict(data) ==
  IF data.t # "obj" THEN [ok |-> FALSE, value |-> JNull]
  ELSE LET kw == KnownFields(data.o)
       IN [ok |-> TRUE,
           value |-> JObj(PostInit([k \in LiveInfoFields |->
                                      IF k \in DOMAIN kw THEN kw[k]
                                      ELSE LiveInfoDefaults[k]]))]

(***************************************************************************)
(* The wire protocol (src/neohub/neohub.py lines 7-10, 125-128, 143-147,   *)
(* 171-176, 188-193, 205-209, 221-225).                                    *)
(***************************************************************************)
Absent == [t |-> "absent"]   \* a key the object does not have

\* The object with the given <<key, value>> pairs, without the Absent ones.
MkObj(pairs) ==
  LET present == {p \in pairs : p[2] # Absent}
  IN JObj([k \in {p[1] : p \in present} |-> (CHOOSE p \in present : p[1] = k)[2]])

Has(obj, k) == k \in DOMAIN obj.o

SeqsUpTo(S, n) == UNION {[1..k -> S] : k \in 0..n}

AuthOps == {"get_data", "set_temperature", "set_mode", "set_away_mode", "get_history"}
CommandOps == AuthOps \ {"get_data"}

Endpoint(o) ==
  CASE o = "login" -> "hm_user_login"
    [] o = "get_data" -> "hm_cache_value"
    [] o = "set_temperature" -> "hm_set_temp"
    [] o = "set_mode" -> "hm_set_mode"
    [] o = "set_away_mode" -> "hm_set_away"
    [] o = "get_history" -> "hm_get_history"

\* Status codes the server answers with: success, accepted, and two others.
StatusCodes == {JInt(0), JInt(1), JInt(201), JInt(2)}

\* Tokens a login response may carry: none, an empty one, two real ones.
TokenChoices == {Absent, JStr(""), JStr("tokA"), JStr("tokB")}

\* Entries of a login response's device list: two devices (one with a key
\* Device does not know, one with fields missing) and one that is no object.
OnlineDevice ==
  MkObj({<<"deviceid", JStr("d1")>>, <<"devicename", JStr("Home")>>,
         <<"online", JBool(TRUE)>>, <<"firmware_build", JInt(7)>>})
OfflineDevice == MkObj({<<"deviceid", JStr("d2")>>, <<"online", JBool(FALSE)>>})
BadRecord == JStr("garbage")
DeviceSamples == {OnlineDevice, OfflineDevice, BadRecord}

\* Entries of a live_info device list: a thermostat, a socket, and one that is
\* no object.
ThermostatZone ==
  MkObj({<<"ZONE_NAME", JStr("Living Room")>>, <<"ACTUAL_TEMP", JStr("21.5")>>,
         <<"HOLD_TEMP", JStr("20.5")>>, <<"RECENT_TEMPS", JStr("21.4")>>,
         <<"LOW_BATTERY", JBool(TRUE)>>, <<"SIGNAL", JInt(3)>>})
SocketZone ==
  MkObj({<<"ZONE_NAME", JStr("Hall Socket")>>, <<"ACTUAL_TEMP", JStr("255.255")>>,
         <<"PRG_TEMP", JStr("n/a")>>, <<"AVAILABLE_MODES", JStr("heat")>>})
ZoneSamples == {ThermostatZone, SocketZone, BadRecord}

\* Login responses {STATUS, TOKEN?, devices?}.
LoginResponsesOf(statuses, tokens, lists) ==
  {MkObj({<<"STATUS", st>>, <<"TOKEN", tk>>, <<"devices", dv>>}) :
     st \in statuses, tk \in tokens, dv \in lists}

\* Data responses {STATUS, CACHE_VALUE?}.
DataResponsesOf(statuses, caches) ==
  {MkObj({<<"STATUS", st>>, <<"CACHE_VALUE", cv>>}) : st \in statuses, cv \in caches}

\* CACHE_VALUE with a live_info that lists the zone records q.
CacheWithZones(q) == MkObj({<<"live_info", MkObj({<<"devices", JList(q)>>})>>})

\* Command responses {STATUS, ERROR?}.
CommandResponsesOf(statuses, errors) ==
  {MkObj({<<"STATUS", st>>, <<"ERROR", er>>}) : st \in statuses, er \in errors}

\* The responses a single caller is answered with: every status, every token
\* choice, the device list absent or of up to MaxRecords entries; CACHE_VALUE
\* absent, without live_info, with a live_info without devices, or with up to
\* MaxRecords zone records.
LoginResponses ==
  LoginResponsesOf(StatusCodes, TokenChoices,
                   {Absent} \cup {JList(q) : q \in SeqsUpTo(DeviceSamples, MaxRecords)})

DataResponses ==
  DataResponsesOf(StatusCodes,
                  {Absent, MkObj({<<"system", JNull>>}), MkObj({<<"live_info", MkObj({})>>})}
                    \cup {CacheWithZones(q) : q \in SeqsUpTo(ZoneSamples, MaxRecords)})

CommandResponses == CommandResponsesOf(StatusCodes, {Absent, JStr("zone locked")})

\* In all of these a container the client indexes (CACHE_VALUE, live_info, the
\* two lists) has the JSON type the wire format gives it; only the records
\* inside the lists may be of another type.

\* The responses concurrent callers are answered with: fewer of each kind.
LoginResponsesConc ==
  LoginResponsesOf({JInt(0), JInt(1)}, TokenChoices, {JList(<<>>)})

DataResponsesConc ==
  DataResponsesOf({JInt(0), JInt(201)},
                  {Absent, CacheWithZones(<<ThermostatZone, BadRecord>>)})

CommandResponsesConc ==
  CommandResponsesOf({JInt(1)}, {Absent})
    \cup CommandResponsesOf({JInt(0)}, {Absent, JStr("zone locked")})

(***************************************************************************)
(* What a call hands back to its caller: a returned value or a raised      *)
(* exception.  An exception built from an f-string is its fixed text and   *)
(* the one value formatted into it.                                        *)
(***************************************************************************)
NoError == [prefix |-> "", arg |-> JNull]
NoOutcome == [kind |-> "none", value |-> JNull, error |-> NoError]
Returned(v) == [kind |-> "return", value |-> v, error |-> NoError]
Raised(pre, a) == [kind |-> "raise", value |-> JNull, error |-> [prefix |-> pre, arg |-> a]]

NotLoggedIn == Raised("Not logged in. Call login() first", JNull)
TransportFailure == Raised("requests.RequestException", JNull)
GenericMessage == JStr("Unknown error")

\* A variant of the token test that only looks for None.
RequireTokenNotNone(tok) == tok.t # "null"

\* "if not self.token: raise" (lines 140, 168, 185, 202, 218): TRUE where the
\* call goes on.
RequireToken(tok) == Truthy(tok)

\* "response['STATUS'] != 1" of login (line 132), negated.
LoginSucceeded(resp) == resp.o["STATUS"] = JInt(1)

\* A variant of get_data's status test that accepts 1 alone.
DataSucceededOnlyOne(resp) == resp.o["STATUS"] = JInt(1)

\* "response['STATUS'] not in [1, 201]" of get_data (line 151), negated.
DataSucceeded(resp) == resp.o["STATUS"] \in {JInt(1), JInt(201)}

\* A variant of the commands' status test that accepts 201 as get_data does.
CommandSucceededAlso201(resp) == resp.o["STATUS"] \in {JInt(1), JInt(201)}

\* "response['STATUS'] != 1" of the four commands (lines 179, 196, 212, 228),
\* negated.
CommandSucceeded(resp) == resp.o["STATUS"] = JInt(1)

\* A variant of the list comprehension of line 136 that returns the devices in
\* the opposite order.
DecodeDevicesReversed(q) ==
  IF \A i \in 1..Len(q) : Device_from_dict(q[i]).ok
  THEN Returned(JList([i \in 1..Len(q) |-> Device_from_dict(q[Len(q) + 1 - i]).value]))
  ELSE Raised("AttributeError: no attribute 'items' on ", JStr("str"))

\* The list comprehension of line 136: the first entry Device.from_dict
\* raises on ends it.
DecodeDevices(q) ==
  IF \A i \in 1..Len(q) : Device_from_dict(q[i]).ok
  THEN Returned(JList([i \in 1..Len(q) |-> Device_from_dict(q[i]).value]))
  ELSE Raised("AttributeError: no attribute 'items' on ",
              JStr((q[CHOOSE i \in 1..Len(q) :
                        /\ ~Device_from_dict(q[i]).ok
                        /\ \A j \in 1..(i - 1) : Device_from_dict(q[j]).ok]).t))

\* A variant of login that stores the response's TOKEN before it looks at the
\* status.
LoginStoresTokenFirst(tok, resp) ==
  LET held == IF Has(resp, "TOKEN") THEN resp.o["TOKEN"] ELSE tok
  IN IF ~LoginSucceeded(resp)
       THEN [token |-> held,
             outcome |-> Raised("Login failed with status: ", resp.o["STATUS"])]
     ELSE IF ~Has(resp, "TOKEN")
       THEN [token |-> tok, outcome |-> Raised("KeyError: ", JStr("TOKEN"))]
     ELSE IF ~Has(resp, "devices")
       THEN [token |-> held, outcome |-> Raised("KeyError: ", JStr("devices"))]
     ELSE [token |-> held, outcome |-> DecodeDevices(resp.o["devices"].l)]

\* A variant of login that keeps the token the client already holds.
LoginKeepsFirstToken(tok, resp) ==
  LET held == IF Truthy(tok) THEN tok ELSE resp.o["TOKEN"]
  IN IF ~LoginSucceeded(resp)
       THEN [token |-> tok,
             outcome |-> Raised("Login failed with status: ", resp.o["STATUS"])]
     ELSE IF ~Has(resp, "TOKEN")
       THEN [token |-> tok, outcome |-> Raised("KeyError: ", JStr("TOKEN"))]
     ELSE IF ~Has(resp, "devices")
       THEN [token |-> held, outcome |-> Raised("KeyError: ", JStr("devices"))]
     ELSE [token |-> held, outcome |-> DecodeDevices(resp.o["devices"].l)]

\* login after the response has arrived (lines 132-136): the token the client
\* holds afterwards, and the outcome of the call.
LoginAfterReply(tok, resp) ==
  IF ~LoginSucceeded(resp)
    THEN [token |-> tok,
          outcome |-> Raised("Login failed with status: ", resp.o["STATUS"])]
  ELSE IF ~Has(resp, "TOKEN")
    THEN [token |-> tok, outcome |-> Raised("KeyError: ", JStr("TOKEN"))]
  ELSE IF ~Has(resp, "devices")
    THEN [token |-> resp.o["TOKEN"], outcome |-> Raised("KeyError: ", JStr("devices"))]
  ELSE [token |-> resp.o["TOKEN"], outcome |-> DecodeDevices(resp.o["devices"].l)]

\* A variant of the zone loop with the try around the whole loop: the first
\* record that fails ends the decoding.
RECURSIVE DecodeZonesUntilFailure(_)
DecodeZonesUntilFailure(q) ==
  IF q = <<>> THEN <<>>
  ELSE LET r == LiveInfoDevice_from_dict(Head(q))
       IN IF r.ok THEN <<r.value>> \o DecodeZonesUntilFailure(Tail(q)) ELSE <<>>

\* The loop of lines 157-161 over the zone records: the records that decode,
\* in order.
RECURSIVE DecodeZones(_)
DecodeZones(q) ==
  IF q = <<>> THEN <<>>
  ELSE LET r == LiveInfoDevice_from_dict(Head(q))
       IN (IF r.ok THEN <<r.value>> ELSE <<>>) \o DecodeZones(Tail(q))

\* The warnings the same loop writes (line 161), one for each record
\* from_dict raises on, in order.
RECURSIVE ZoneWarnings(_)
ZoneWarnings(q) ==
  IF q = <<>> THEN <<>>
  ELSE LET r == LiveInfoDevice_from_dict(Head(q))
       IN (IF r.ok THEN <<>>
           ELSE <<[prefix |-> "Warning: Failed to parse device data: ",
                   arg |-> JStr(Head(q).t)]>>) \o ZoneWarnings(Tail(q))

HasZoneList(resp) ==
  /\ Has(resp, "CACHE_VALUE")
  /\ Has(resp.o["CACHE_VALUE"], "live_info")

\* ".get('devices', [])" of line 157.
RawZones(resp) ==
  LET li == resp.o["CACHE_VALUE"].o["live_info"]
  IN IF Has(li, "devices") THEN li.o["devices"].l ELSE <<>>

\* The response with its zone list replaced by the decoded zones (line 162).
WithZones(resp, zones) ==
  LET cv == resp.o["CACHE_VALUE"]
      li == cv.o["live_info"]
      li2 == JObj([k \in DOMAIN li.o \cup {"devices"} |->
                     IF k = "devices" THEN JList(zones) ELSE li.o[k]])
      cv2 == JObj([cv.o EXCEPT !["live_info"] = li2])
  IN JObj([resp.o EXCEPT !["CACHE_VALUE"] = cv2])

\* get_data after the response has arrived (lines 151-164).
GetDataAfterReply(resp) ==
  IF ~DataSucceeded(resp)
    THEN [outcome |-> Raised("Unexpected status from getData: ", resp.o["STATUS"]),
          warnings |-> <<>>]
  ELSE IF HasZoneList(resp)
    THEN [outcome |-> Returned(WithZones(resp, DecodeZones(RawZones(resp)))),
          warnings |-> ZoneWarnings(RawZones(resp))]
  ELSE [outcome |-> Returned(resp), warnings |-> <<>>]

CommandPrefix(o) ==
  CASE o = "set_temperature" -> "Failed to set temperature: "
    [] o = "set_mode" -> "Failed to set mode: "
    [] o = "set_away_mode" -> "Failed to set away mode: "
    [] o = "get_history" -> "Failed to get history: "

\* "response.get('ERROR', 'Unknown error')" (lines 180, 197, 213, 229).
ErrorText(resp) == IF Has(resp, "ERROR") THEN resp.o["ERROR"] ELSE GenericMessage

\* A command after the response has arrived (lines 179-181, 196-198, 212-214,
\* 228-230).
CommandAfterReply(o, resp) ==
  IF CommandSucceeded(resp) THEN Returned(resp)
  ELSE Raised(CommandPrefix(o), ErrorText(resp))

\* A variant in which a call that ends in a transport failure drops the token.
TokenDroppedOnTransportFailure(tok, out) ==
  IF out = TransportFailure THEN JNull ELSE tok

\* A variant in which a call the server refused drops the token.
TokenDroppedOnRefusal(tok, out) ==
  IF out.kind = "raise" /\ out # TransportFailure THEN JNull ELSE tok

\* The token after an authenticated call: none of lines 138-230 assigns
\* self.token.
TokenAfterAuthCall(tok, out) == tok

\* A variant that posts the request again after a transport failure.
RetryAfterTransportError == "ready"

\* Where a call stands after session.post, raise_for_status or json() raised:
\* _form_post_request (lines 232-237) and its callers catch nothing.
AfterTransportError == "done"

(***************************************************************************)
(* The dashboard's helpers (src/app.py lines 47-63).                       *)
(***************************************************************************)
\* Python's "sub in s" for two texts.
Contains(s, sub) ==
  \E i \in 1..(Len(s) - Len(sub) + 1) : SubSeq(s, i, i + Len(sub) - 1) = sub

\* Python's "x in v" for a text x: a substring test on a text, membership in a
\* list, a key test on a dict; ok is FALSE where it raises TypeError (None, a
\* number or a bool is not iterable).
TextIn(x, v) ==
  CASE v.t = "str" -> [ok |-> TRUE, found |-> Contains(v.s, x)]
    [] v.t = "list" -> [ok |-> TRUE, found |-> \E i \in 1..Len(v.l) : v.l[i] = JStr(x)]
    [] v.t = "obj" -> [ok |-> TRUE, found |-> x \in DOMAIN v.o]
    [] OTHER -> [ok |-> FALSE, found |-> FALSE]

NotIterable == Raised("TypeError: argument is not iterable", JNull)

\* get_device_type (lines 47-53) on a decoded zone: "or" tests the zone name
\* only where the actual-temperature test is false.
get_device_type(zone_data) ==
  LET temp == zone_data.o["ACTUAL_TEMP"]
      named == TextIn("Socket", zone_data.o["ZONE_NAME"])
  IN IF temp.t = "str" /\ temp.s = "255.255" THEN Returned(JStr("SOCKET"))
     ELSE IF ~named.ok THEN NotIterable
     ELSE IF named.found THEN Returned(JStr("SOCKET"))
     ELSE Returned(JStr("THERMOSTAT"))

\* float(v) (line 60) of any value: a text is parsed, a number or a bool is
\* taken as it is, None and containers raise TypeError.
FloatOf(v) ==
  CASE v.t = "str" -> PyFloat(v.s)
    [] v.t = "int" -> [ok |-> TRUE, kind |-> "num", milli |-> 1000 * v.n]
    [] v.t = "float" -> [ok |-> TRUE, kind |-> IF v.s = "" THEN "num" ELSE v.s, milli |-> v.n]
    [] v.t = "bool" -> [ok |-> TRUE, kind |-> "num", milli |-> IF v.b THEN 1000 ELSE 0]
    [] OTHER -> FloatFail

\* A range test that leaves out its two ends.
is_valid_temperature_open_range(temp_str, device_type) ==
  IF device_type = "SOCKET" THEN TRUE
  ELSE LET temp == FloatOf(temp_str)
       IN temp.ok /\ temp.kind = "num" /\ 0 < temp.milli /\ temp.milli < 50000

\* is_valid_temperature (lines 55-63); nan and inf fail both comparisons.
is_valid_temperature(temp_str, device_type) ==
  IF device_type = "SOCKET" THEN TRUE
  ELSE LET temp == FloatOf(temp_str)
       IN temp.ok /\ temp.kind = "num" /\ 0 <= temp.milli /\ temp.milli <= 50000

DeviceKinds == {"SOCKET", "THERMOSTAT"}

(***************************************************************************)
(* get_problematic_zones (src/app.py lines 65-115).  An issue record holds *)
(* the three columns of the code's dict, the value formatted into the      *)
(* issue text (detail), and the place in the device list of the device it  *)
(* was written for (at).                                                   *)
(***************************************************************************)
AllZones == JStr("All Zones")

Problem(i, dev, zn, issue, detail) ==
  [at |-> i, Device |-> dev.o["devicename"], Zone |-> zn, Issue |-> issue,
   detail |-> detail]

\* Lines 70-74.
OfflineProblem(i, dev) == Problem(i, dev, AllZones, "Device Offline", JNull)

\* Lines 109-113: the record written by "except Exception as e".
ErrorProblem(i, dev, err) == Problem(i, dev, AllZones, "Error: " \o err.prefix, err.arg)

\* "if not device.online" (line 69).
IsOnline(dev) == Truthy(dev.o["online"])

\* A zone check that judges the temperature of every zone, sockets too.
ZoneIssuesOfAnyKind(i, dev, z, kind) ==
  (IF ~is_valid_temperature(z.o["ACTUAL_TEMP"], "THERMOSTAT")
   THEN <<Problem(i, dev, z.o["ZONE_NAME"], "Invalid Temperature Reading: ",
                  z.o["ACTUAL_TEMP"])>>
   ELSE <<>>)
  \o (IF Truthy(z.o["LOW_BATTERY"])
      THEN <<Problem(i, dev, z.o["ZONE_NAME"], "Low Battery", JNull)>> ELSE <<>>)
  \o (IF Truthy(z.o["WINDOW_OPEN"])
      THEN <<Problem(i, dev, z.o["ZONE_NAME"], "Window Open", JNull)>> ELSE <<>>)

\* Lines 86-107: the issues of one zone classified as kind.
ZoneIssues(i, dev, z, kind) ==
  (IF kind = "THERMOSTAT" /\ ~is_valid_temperature(z.o["ACTUAL_TEMP"], kind)
   THEN <<Problem(i, dev, z.o["ZONE_NAME"], "Invalid Temperature Reading: ",
                  z.o["ACTUAL_TEMP"])>>
   ELSE <<>>)
  \o (IF Truthy(z.o["LOW_BATTERY"])
      THEN <<Problem(i, dev, z.o["ZONE_NAME"], "Low Battery", JNull)>> ELSE <<>>)
  \o (IF Truthy(z.o["WINDOW_OPEN"])
      THEN <<Problem(i, dev, z.o["ZONE_NAME"], "Window Open", JNull)>> ELSE <<>>)

\* Lines 81-107: the zone loop.  Where get_device_type raises, the issues
\* already written stay and the loop ends in the except clause; failed tells
\* whether it did.
RECURSIVE ZoneLoop(_, _, _)
ThenZones(first, rest) ==
  [issues |-> first \o rest.issues, failed |-> rest.failed]

ZoneStep(i, dev, z, kind, rest) ==
  IF kind.kind = "raise"
  THEN [issues |-> <<ErrorProblem(i, dev, kind.error)>>, failed |-> TRUE]
  ELSE ThenZones(ZoneIssues(i, dev, z, kind.value.s), ZoneLoop(i, dev, rest))

ZoneLoop(i, dev, q) ==
  IF q = <<>> THEN [issues |-> <<>>, failed |-> FALSE]
  ELSE ZoneStep(i, dev, Head(q), get_device_type(Head(q)), Tail(q))

KeyErrorOf(k) == [prefix |-> "KeyError: ", arg |-> JStr(k)]

\* Lines 77-113: the try block for one online device, given the outcome of
\* get_data.
DeviceIssues(i, dev, out) ==
  IF out.kind = "raise"
    THEN [issues |-> <<ErrorProblem(i, dev, out.error)>>, failed |-> TRUE]
  ELSE IF ~Has(out.value, "CACHE_VALUE")
    THEN [issues |-> <<ErrorProblem(i, dev, KeyErrorOf("CACHE_VALUE"))>>, failed |-> TRUE]
  ELSE IF ~Has(out.value.o["CACHE_VALUE"], "live_info")
    THEN [issues |-> <<ErrorProblem(i, dev, KeyErrorOf("live_info"))>>, failed |-> TRUE]
  ELSE ZoneLoop(i, dev, out.value.o["CACHE_VALUE"].o["live_info"].o["devices"].l)

\* A pass that a failure for one device brings to an end.
StopAfterDeviceFailure == "crashed"

\* Where the pass goes on after a failure for one device: the except clause
\* (lines 108-113) is inside the loop, the next device follows.
AfterDeviceFailure == "loop"

(***************************************************************************)
(* The client and the calls in progress on it.                             *)
(***************************************************************************)
VARIABLES
  token,     \* self.token: JNull (None) until a login stores one
  pc,        \* pc[c]: "idle", "ready" (request not yet posted), "sent", "done"
  op,        \* op[c]: the operation call c runs
  chk,       \* chk[c]: self.token as the "if not self.token" test read it
  req,       \* req[c]: the request call c posted last
  nsent,     \* nsent[c]: the requests call c has posted
  reply,     \* reply[c]: what came back for call c
  outcome,   \* outcome[c]: what call c hands to its caller
  warnings,  \* warnings[c]: the warnings call c has written
  granted,   \* what the login responses with STATUS 1 carried, for the properties
  zone,      \* one zone record on its way through the decoder and the helpers
  app        \* the dashboard's pass over its device list

vars == <<token, pc, op, chk, req, nsent, reply, outcome, warnings, granted, zone, app>>

Calls == 1..NumCalls

NoRequest == [endpoint |-> "", token |-> Absent]
NoReply == [t |-> "none"]
TransportError == [t |-> "transport-error"]

\* No zone record is under way; the dashboard is not running.
NoZone == [pc |-> "none"]
NoApp == [pc |-> "none"]

\* granted.last is the TOKEN (Absent where it had none) of the latest login
\* response with STATUS 1, granted.token the TOKEN of the latest one that had
\* a TOKEN; NoReply where there was no such response yet.
NoneGranted == [last |-> NoReply, token |-> NoReply]

GrantedAfter(g, resp) ==
  IF Has(resp, "STATUS") /\ resp.o["STATUS"] = JInt(1)
  THEN IF Has(resp, "TOKEN")
       THEN [last |-> resp.o["TOKEN"], token |-> resp.o["TOKEN"]]
       ELSE [g EXCEPT !.last = Absent]
  ELSE g

\* NeoHub.__init__ (lines 116-121); no call has begun.
ClientInit ==
  /\ token = JNull
  /\ pc = [c \in Calls |-> "idle"]
  /\ op = [c \in Calls |-> "login"]
  /\ chk = [c \in Calls |-> Absent]
  /\ req = [c \in Calls |-> NoRequest]
  /\ nsent = [c \in Calls |-> 0]
  /\ reply = [c \in Calls |-> NoReply]
  /\ outcome = [c \in Calls |-> NoOutcome]
  /\ warnings = [c \in Calls |-> <<>>]
  /\ granted = NoneGranted

\* A client alone: no zone record under way, no dashboard.
Init ==
  /\ ClientInit
  /\ zone = NoZone
  /\ app = NoApp

\* login up to the call of _form_post_request (lines 125-130).
LoginCall(c) ==
  /\ pc[c] = "idle"
  /\ pc' = [pc EXCEPT ![c] = "ready"]
  /\ op' = [op EXCEPT ![c] = "login"]
  /\ UNCHANGED <<token, chk, req, nsent, reply, outcome, warnings, granted, zone, app>>

\* An authenticated operation up to its token test (lines 140-141, 168-169,
\* 185-186, 202-203, 218-219).
AuthCall(c, o) ==
  /\ pc[c] = "idle"
  /\ op' = [op EXCEPT ![c] = o]
  /\ chk' = [chk EXCEPT ![c] = token]
  /\ IF RequireToken(token)
       THEN /\ pc' = [pc EXCEPT ![c] = "ready"]
            /\ UNCHANGED outcome
       ELSE /\ pc' = [pc EXCEPT ![c] = "done"]
            /\ outcome' = [outcome EXCEPT ![c] = NotLoggedIn]
  /\ UNCHANGED <<token, req, nsent, reply, warnings, granted, zone, app>>

\* The request parameters are built, reading self.token where the operation
\* sends one (lines 143-147, 171-176, ...), and posted (line 235).
Post(c) ==
  /\ pc[c] = "ready"
  /\ req' = [req EXCEPT ![c] =
               [endpoint |-> Endpoint(op[c]),
                token |-> IF op[c] = "login" THEN Absent ELSE token]]
  /\ nsent' = [nsent EXCEPT ![c] = @ + 1]
  /\ pc' = [pc EXCEPT ![c] = "sent"]
  /\ UNCHANGED <<token, op, chk, reply, outcome, warnings, granted, zone, app>>

\* session.post, raise_for_status or json() raises (lines 235-237).
TransportFails(c) ==
  /\ pc[c] = "sent"
  /\ reply' = [reply EXCEPT ![c] = TransportError]
  /\ pc' = [pc EXCEPT ![c] = AfterTransportError]
  /\ outcome' = [outcome EXCEPT ![c] =
                   IF AfterTransportError = "done" THEN TransportFailure ELSE @]
  /\ token' = IF op[c] = "login" THEN token
              ELSE TokenAfterAuthCall(token, TransportFailure)
  /\ UNCHANGED <<op, chk, req, nsent, warnings, granted, zone, app>>

\* login receives its response (lines 130-136).
LoginReply(c, resp) ==
  /\ pc[c] = "sent" /\ op[c] = "login"
  /\ reply' = [reply EXCEPT ![c] = resp]
  /\ token' = LoginAfterReply(token, resp).token
  /\ outcome' = [outcome EXCEPT ![c] = LoginAfterReply(token, resp).outcome]
  /\ pc' = [pc EXCEPT ![c] = "done"]
  /\ granted' = GrantedAfter(granted, resp)
  /\ UNCHANGED <<op, chk, req, nsent, warnings, zone, app>>

\* get_data receives its response (lines 149-164).
DataReply(c, resp) ==
  /\ pc[c] = "sent" /\ op[c] = "get_data"
  /\ reply' = [reply EXCEPT ![c] = resp]
  /\ outcome' = [outcome EXCEPT ![c] = GetDataAfterReply(resp).outcome]
  /\ warnings' = [warnings EXCEPT ![c] = GetDataAfterReply(resp).warnings]
  /\ token' = TokenAfterAuthCall(token, GetDataAfterReply(resp).outcome)
  /\ pc' = [pc EXCEPT ![c] = "done"]
  /\ UNCHANGED <<op, chk, req, nsent, granted, zone, app>>

\* A command receives its response (lines 178-181, 195-198, 211-214, 227-230).
CommandReply(c, resp) ==
  /\ pc[c] = "sent" /\ op[c] \in CommandOps
  /\ reply' = [reply EXCEPT ![c] = resp]
  /\ outcome' = [outcome EXCEPT ![c] = CommandAfterReply(op[c], resp)]
  /\ token' = TokenAfterAuthCall(token, CommandAfterReply(op[c], resp))
  /\ pc' = [pc EXCEPT ![c] = "done"]
  /\ UNCHANGED <<op, chk, req, nsent, warnings, granted, zone, app>>

\* The caller has taken the outcome; the slot is free for its next call.
FinishSlot(c) ==
  /\ pc[c] = "done"
  /\ pc' = [pc EXCEPT ![c] = "idle"]
  /\ op' = [op EXCEPT ![c] = "login"]
  /\ chk' = [chk EXCEPT ![c] = Absent]
  /\ req' = [req EXCEPT ![c] = NoRequest]
  /\ nsent' = [nsent EXCEPT ![c] = 0]
  /\ reply' = [reply EXCEPT ![c] = NoReply]
  /\ outcome' = [outcome EXCEPT ![c] = NoOutcome]
  /\ warnings' = [warnings EXCEPT ![c] = <<>>]

Finish(c) ==
  /\ FinishSlot(c)
  /\ UNCHANGED <<token, granted, zone, app>>

InProgress(c) == pc[c] \in {"ready", "sent"}
LoginInProgress == \E c \in Calls : InProgress(c) /\ op[c] = "login"
AuthInProgress == \E c \in Calls : InProgress(c) /\ op[c] \in AuthOps
AllIdle == \A c \in Calls : pc[c] = "idle"

\* The steps of a call once it has begun, answered from the given responses.
Continue(c, logins, datas, commands) ==
  \/ Post(c)
  \/ TransportFails(c)
  \/ \E resp \in logins : LoginReply(c, resp)
  \/ \E resp \in datas : DataReply(c, resp)
  \/ \E resp \in commands : CommandReply(c, resp)
  \/ Finish(c)

\* One caller, one call at a time (cli.py, app.py).
Next ==
  \E c \in Calls :
    \/ AllIdle /\ LoginCall(c)
    \/ AllIdle /\ \E o \in AuthOps : AuthCall(c, o)
    \/ Continue(c, LoginResponses, DataResponses, CommandResponses)

Spec == Init /\ [][Next]_vars

\* Callers on several threads, where no login runs while an authenticated
\* call is in progress (the token is read-only during their lifetime).
NextConc ==
  \E c \in Calls :
    \/ ~AuthInProgress /\ LoginCall(c)
    \/ ~LoginInProgress /\ \E o \in AuthOps : AuthCall(c, o)
    \/ Continue(c, LoginResponsesConc, DataResponsesConc, CommandResponsesConc)

SpecConc == Init /\ [][NextConc]_vars

\* Callers on several threads with no rule at all: a login may run while
\* get_data and set_away_mode calls are in progress.
NextRace ==
  \E c \in Calls :
    \/ LoginCall(c)
    \/ \E o \in {"get_data", "set_away_mode"} : AuthCall(c, o)
    \/ Continue(c, LoginResponsesConc, DataResponsesConc, CommandResponsesConc)

SpecRace == Init /\ [][NextRace]_vars

(***************************************************************************)
(* One zone record through LiveInfoDevice.from_dict, get_device_type and   *)
(* is_valid_temperature: the record is drawn when the run begins, the      *)
(* steps apply the functions to it.                                        *)
(***************************************************************************)
clientvars == <<token, pc, op, chk, req, nsent, reply, outcome, warnings, granted>>

NameChoices ==
  {Absent, JNull, JStr("Living Room"), JStr("Hall Socket"), JStr("socket 2")}

TempChoices ==
  {Absent, JStr("21.5"), JStr("255.255"), JStr("abc"), JStr("0"), JStr("50"),
   JStr("50.001"), JStr("-0.5"), JStr(" 7 "), JStr("nan"), JStr("1e1"),
   JFloat(255255)}

FloatTextChoices ==
  {Absent, JStr("20.5"), JStr("n/a"), JStr(""), JStr("-3"), JStr("1_0e-1"),
   JFloat(18000)}

ListChoices ==
  {Absent, JNull, JStr("heat")}
    \cup {JList(q) : q \in SeqsUpTo({JStr("heat"), JStr("auto")}, MaxListLen)}

ListFields == {"AVAILABLE_MODES", "RECENT_TEMPS"}

\* One more field of a record: one of the float fields or one of the list
\* fields, with a value for it.
FieldChoices ==
  (FloatFields \X FloatTextChoices) \cup (ListFields \X ListChoices)

\* Raw live_info records: a name, an actual temperature and one more field,
\* each present or not.
ZoneInputs ==
  {MkObj({<<"ZONE_NAME", nm>>, <<"ACTUAL_TEMP", at>>, fc}) :
     nm \in NameChoices, at \in TempChoices, fc \in FieldChoices}

InitZone ==
  /\ ClientInit
  /\ app = NoApp
  /\ \E raw \in ZoneInputs :
       zone = [pc |-> "raw", raw |-> raw, decoded |-> JNull,
               kind |-> NoOutcome, askedKind |-> "", valid |-> FALSE]

\* LiveInfoDevice.from_dict(raw) (neohub.py lines 90-113); "failed" where
\* it raises.
DecodeZone ==
  /\ zone.pc = "raw"
  /\ zone' = [zone EXCEPT
                !.pc = IF LiveInfoDevice_from_dict(zone.raw).ok THEN "decoded" ELSE "failed",
                !.decoded = LiveInfoDevice_from_dict(zone.raw).value]
  /\ UNCHANGED <<clientvars, app>>

\* get_device_type(zone) (app.py line 83).
ClassifyZone ==
  /\ zone.pc = "decoded"
  /\ zone' = [zone EXCEPT !.pc = "classified", !.kind = get_device_type(zone.decoded)]
  /\ UNCHANGED <<clientvars, app>>

\* is_valid_temperature(zone.ACTUAL_TEMP, device_type) for either kind
\* (app.py lines 55-63).
ValidateZone(device_type) ==
  /\ zone.pc = "classified"
  /\ zone' = [zone EXCEPT
                !.pc = "validated", !.askedKind = device_type,
                !.valid = is_valid_temperature(zone.decoded.o["ACTUAL_TEMP"], device_type)]
  /\ UNCHANGED <<clientvars, app>>

NextZone ==
  \/ DecodeZone
  \/ ClassifyZone
  \/ \E k \in DeviceKinds : ValidateZone(k)

SpecZone == InitZone /\ [][NextZone]_vars

(***************************************************************************)
(* The dashboard (src/app.py): login() builds a client and logs in, and    *)
(* with a device list in hand the script calls get_problematic_zones.  It  *)
(* has one call in progress at a time, in slot 1.                          *)
(***************************************************************************)
\* Zones the dashboard is answered with: one out of range with its window
\* open, and one without a name.
ColdZone ==
  MkObj({<<"ZONE_NAME", JStr("Attic")>>, <<"ACTUAL_TEMP", JStr("-3.5")>>,
         <<"WINDOW_OPEN", JBool(TRUE)>>})
NamelessZone == MkObj({<<"ACTUAL_TEMP", JStr("19")>>, <<"LOW_BATTERY", JBool(TRUE)>>})
AppZoneSamples == {ThermostatZone, SocketZone, ColdZone, NamelessZone}

\* A device record without the online flag.
UnknownDevice == MkObj({<<"deviceid", JStr("d3")>>, <<"devicename", JStr("Shed")>>})

LoginResponsesApp ==
  LoginResponsesOf({JInt(0), JInt(1)}, {JStr(""), JStr("tokA")},
                   {Absent} \cup {JList(q) : q \in SeqsUpTo(DeviceSamples \cup {UnknownDevice},
                                                             MaxDevices)})

DataResponsesApp ==
  DataResponsesOf({JInt(0), JInt(1)},
                  {Absent, MkObj({<<"system", JNull>>})}
                    \cup {CacheWithZones(q) : q \in SeqsUpTo(AppZoneSamples, MaxZones)})

\* The script before login() (lines 10-13): no client yet, no devices.
AtLogin == [pc |-> "login", devices |-> <<>>, i |-> 0, problems |-> <<>>]

InitApp ==
  /\ ClientInit
  /\ zone = NoZone
  /\ app = AtLogin

\* login() (lines 17-23): a new client, and its login() is called.
AppLogin ==
  /\ app.pc = "login"
  /\ LoginCall(1)

\* login() after client.login() (lines 23-28) and the test of line 133: with
\* a device list that is not empty get_problematic_zones begins (line 67);
\* otherwise the client is dropped, and the next login() builds a new one.
AppLoggedIn ==
  /\ app.pc = "login"
  /\ FinishSlot(1)
  /\ IF outcome[1].kind = "return" /\ outcome[1].value.l # <<>>
       THEN /\ app' = [pc |-> "loop", devices |-> outcome[1].value.l, i |-> 1,
                       problems |-> <<>>]
            /\ UNCHANGED <<token, granted>>
       ELSE /\ app' = AtLogin
            /\ token' = JNull
            /\ granted' = NoneGranted
  /\ UNCHANGED zone

Examining == app.pc = "loop" /\ app.i <= Len(app.devices)

\* Lines 69-75: a device that is not online.
AppOffline ==
  /\ Examining /\ pc[1] = "idle"
  /\ ~IsOnline(app.devices[app.i])
  /\ app' = [app EXCEPT !.problems = Append(@, OfflineProblem(app.i, app.devices[app.i])),
                        !.i = @ + 1]
  /\ UNCHANGED <<clientvars, zone>>

\* Line 78: get_data is called for a device that is online.
AppFetch ==
  /\ Examining
  /\ IsOnline(app.devices[app.i])
  /\ AuthCall(1, "get_data")

\* Lines 79-113, once get_data has returned or raised: the issues of the
\* device's zones, or the error record; then the next device.
AppCollect ==
  /\ Examining
  /\ FinishSlot(1)
  /\ LET r == DeviceIssues(app.i, app.devices[app.i], outcome[1])
     IN app' = [app EXCEPT !.problems = @ \o r.issues,
                           !.pc = IF r.failed THEN AfterDeviceFailure ELSE "loop",
                           !.i = @ + 1]
  /\ UNCHANGED <<token, granted, zone>>

\* Line 115: return problems.
AppReturn ==
  /\ app.pc = "loop" /\ app.i > Len(app.devices)
  /\ app' = [app EXCEPT !.pc = "returned"]
  /\ UNCHANGED <<clientvars, zone>>

NextApp ==
  \/ AppLogin
  \/ app.pc \in {"login", "loop"} /\ Post(1)
  \/ app.pc \in {"login", "loop"} /\ TransportFails(1)
  \/ \E resp \in LoginResponsesApp : LoginReply(1, resp)
  \/ AppLoggedIn
  \/ AppOffline
  \/ AppFetch
  \/ \E resp \in DataResponsesApp : DataReply(1, resp)
  \/ AppCollect
  \/ AppReturn

SpecApp == InitApp /\ [][NextApp]_vars

(***************************************************************************)
(* Vocabulary of the properties.                                           *)
(***************************************************************************)
Done(c) == pc[c] = "done"
Answered(c) == Done(c) /\ reply[c].t = "obj"
Status(c) == reply[c].o["STATUS"]

\* A token that is neither absent, nor None, nor the empty text.
RealToken(v) == v.t = "str" /\ v.s # ""

\* Call c ends in this step with a response from the server.
AnsweredStep(c) == pc[c] = "sent" /\ pc'[c] = "done" /\ reply'[c].t = "obj"

C2_FailedLoginLeavesTokenUnset ==
  \A c \in Calls :
    (op[c] = "login" /\ Answered(c) /\ Status(c) # JInt(1)) =>
      /\ outcome[c] = Raised("Login failed with status: ", Status(c))
      /\ ~RequireToken(token)

(***************************************************************************)
(* C2, amended.  A login answered with a STATUS other than 1 fails with an *)
(* error carrying that status and leaves the token as it was: a client     *)
(* that held none still holds none, and an authenticated call that finds   *)
(* none fails with the not-logged-in error.                                *)
(***************************************************************************)
C2_FailedLoginKeepsToken ==
  [][\A c \in Calls :
       /\ (op[c] = "login" /\ AnsweredStep(c) /\ reply'[c].o["STATUS"] # JInt(1)) =>
            /\ outcome'[c] = Raised("Login failed with status: ", reply'[c].o["STATUS"])
            /\ token' = token
       /\ (pc[c] = "idle" /\ pc'[c] # "idle" /\ op'[c] \in AuthOps /\ ~RealToken(token)) =>
            /\ pc'[c] = "done"
            /\ outcome'[c] = NotLoggedIn]_vars

\* A login has failed on a client that was logged in before, with a response
\* that carried a TOKEN of its own.
C2_Witness ==
  \E c \in Calls :
    /\ op[c] = "login" /\ Answered(c) /\ Status(c) = JInt(0)
    /\ Has(reply[c], "TOKEN") /\ RealToken(token) /\ token # reply[c].o["TOKEN"]

(***************************************************************************)
(* C3, as stated.  After a login was answered with STATUS 1, a TOKEN and a *)
(* device list, the client holds that token, the call has returned one     *)
(* Device for each entry of the list, and the token test of the            *)
(* authenticated operations passes.                                        *)
(***************************************************************************)
C3_LoginStoresAndReturns ==
  \A c \in Calls :
    (/\ op[c] = "login" /\ Answered(c) /\ Status(c) = JInt(1)
     /\ Has(reply[c], "TOKEN") /\ Has(reply[c], "devices")) =>
      /\ token = reply[c].o["TOKEN"]
      /\ outcome[c].kind = "return"
      /\ Len(outcome[c].value.l) = Len(reply[c].o["devices"].l)
      /\ RequireToken(token)

\* Entry e of a device list as Device holds it: the fields Device knows, None
\* for those the entry lacks, nothing else.
IsDeviceOf(d, e) ==
  /\ d.t = "obj"
  /\ DOMAIN d.o = DeviceFields
  /\ \A k \in DeviceFields : d.o[k] = IF k \in DOMAIN e.o THEN e.o[k] ELSE JNull

(***************************************************************************)
(* C3, amended.  After a login was answered with STATUS 1 and TOKEN t, the *)
(* client holds t; where every entry of the device list is an object the   *)
(* call has returned one Device for each entry, in order (none for an      *)
(* empty list); and the token test of the authenticated operations passes  *)
(* exactly if t is not empty.                                              *)
(***************************************************************************)
C3_LoginStoresTokenReturnsDevices ==
  \A c \in Calls :
    (op[c] = "login" /\ Answered(c) /\ Status(c) = JInt(1) /\ Has(reply[c], "TOKEN")) =>
      /\ token = reply[c].o["TOKEN"]
      /\ RequireToken(token) <=> RealToken(reply[c].o["TOKEN"])
      /\ (/\ Has(reply[c], "devices")
          /\ \A i \in 1..Len(reply[c].o["devices"].l) :
               reply[c].o["devices"].l[i].t = "obj") =>
           LET q == reply[c].o["devices"].l
           IN /\ outcome[c].kind = "return"
              /\ outcome[c].value.t = "list"
              /\ Len(outcome[c].value.l) = Len(q)
              /\ \A i \in 1..Len(q) : IsDeviceOf(outcome[c].value.l[i], q[i])

\* A login has stored a token and returned two different devices.
C3_Witness ==
  \E c \in Calls :
    /\ op[c] = "login" /\ Answered(c) /\ Status(c) = JInt(1)
    /\ token = JStr("tokA")
    /\ Has(reply[c], "devices")
    /\ reply[c].o["devices"].l = <<OnlineDevice, OfflineDevice>>
    /\ outcome[c].kind = "return"
    /\ Len(outcome[c].value.l) = 2

(***************************************************************************)
(* C4.  A get_data call that was answered has returned exactly if the      *)
(* STATUS is 1 or 201; with any other STATUS it has raised an error that   *)
(* carries the status, and hands back no data.                             *)
(***************************************************************************)
C4_GetDataStatus ==
  \A c \in Calls :
    (op[c] = "get_data" /\ Answered(c)) =>
      /\ outcome[c].kind = "return" <=> Status(c) \in {JInt(1), JInt(201)}
      /\ outcome[c].kind # "return" =>
           /\ outcome[c] = Raised("Unexpected status from getData: ", Status(c))
           /\ outcome[c].value = JNull
           /\ warnings[c] = <<>>

\* get_data has returned data on STATUS 201.
C4_Witness ==
  \E c \in Calls :
    /\ op[c] = "get_data" /\ Answered(c) /\ Status(c) = JInt(201)
    /\ RealToken(req[c].token)
    /\ outcome[c].kind = "return"
    /\ HasZoneList(outcome[c].value)

\* The positions of q that hold an object, and how many of them are at or
\* before position i.
ObjectsIn(q) == {i \in 1..Len(q) : q[i].t = "obj"}
RankIn(q, i) == Cardinality({j \in ObjectsIn(q) : j <= i})

(***************************************************************************)
(* C5.  A get_data call answered with a success status and a zone list has *)
(* returned: its zone list holds the decoding of every record that is an   *)
(* object, in order, whatever stands before or after it, and one warning   *)
(* has been written for each record that is not.                           *)
(***************************************************************************)
C5_ZoneDecodeIsolated ==
  \A c \in Calls :
    (/\ op[c] = "get_data" /\ Answered(c)
     /\ Status(c) \in {JInt(1), JInt(201)} /\ HasZoneList(reply[c])) =>
      LET q == RawZones(reply[c])
          z == RawZones(outcome[c].value)
      IN /\ outcome[c].kind = "return"
         /\ Len(z) = Cardinality(ObjectsIn(q))
         /\ Len(warnings[c]) = Len(q) - Cardinality(ObjectsIn(q))
         /\ \A i \in ObjectsIn(q) :
              z[RankIn(q, i)] = LiveInfoDevice_from_dict(q[i]).value

\* get_data has returned the zones before and after a record that did not
\* decode, and written one warning.
C5_Witness ==
  \E c \in Calls :
    /\ op[c] = "get_data" /\ Answered(c) /\ Status(c) = JInt(201)
    /\ HasZoneList(reply[c])
    /\ RawZones(reply[c]) = <<ThermostatZone, BadRecord, SocketZone>>
    /\ outcome[c].kind = "return"
    /\ Len(RawZones(outcome[c].value)) = 2
    /\ RawZones(outcome[c].value)[2].o["ZONE_NAME"] = JStr("Hall Socket")
    /\ Len(warnings[c]) = 1

\* The error of call c carries the value v.
Carries(c, v) == outcome[c].kind = "raise" /\ outcome[c].error.arg = v

(***************************************************************************)
(* C6, as stated.  A mutating command answered with a STATUS other than 1  *)
(* has raised an error that carries the status and the server's ERROR      *)
(* message, and never the generic message.                                 *)
(***************************************************************************)
C6_CommandErrorCarriesStatusAndMessage ==
  \A c \in Calls :
    (/\ op[c] \in {"set_temperature", "set_mode", "set_away_mode"}
     /\ Answered(c) /\ Status(c) # JInt(1)) =>
      /\ Carries(c, Status(c))
      /\ Has(reply[c], "ERROR") => Carries(c, reply[c].o["ERROR"])
      /\ ~Carries(c, GenericMessage)

(***************************************************************************)
(* C7.  A command (set_temperature, set_mode, set_away_mode, get_history)  *)
(* that was answered has returned the response exactly if the STATUS is 1  *)
(* (not 201); otherwise it has raised its error with the server's ERROR    *)
(* message where the response has one, and the generic message where not.  *)
(***************************************************************************)
C7_CommandStatus ==
  \A c \in Calls :
    (op[c] \in CommandOps /\ Answered(c)) =>
      /\ outcome[c] = Returned(reply[c]) <=> Status(c) = JInt(1)
      /\ Status(c) # JInt(1) =>
           /\ outcome[c].kind = "raise"
           /\ outcome[c].error.prefix = CommandPrefix(op[c])
           /\ outcome[c].error.arg =
                IF Has(reply[c], "ERROR") THEN reply[c].o["ERROR"]
                ELSE JStr("Unknown error")

\* get_history has failed on STATUS 201 with the generic message.
C7_Witness ==
  \E c \in Calls :
    /\ op[c] = "get_history" /\ Answered(c) /\ Status(c) = JInt(201)
    /\ ~Has(reply[c], "ERROR")
    /\ outcome[c] = Raised("Failed to get history: ", JStr("Unknown error"))

(***************************************************************************)
(* C8.  Only a login that is answered writes the token: every step of      *)
(* get_data and of the four commands, whether it returns, is refused or    *)
(* ends in a transport failure, leaves the token as it was.                *)
(***************************************************************************)
C8_OnlyLoginWritesToken ==
  [][token' # token => \E c \in Calls : op[c] = "login" /\ AnsweredStep(c)]_vars

\* An authenticated call has ended in a transport failure while another call's
\* request with the same token is in flight.
C8_Witness ==
  \E c, d \in Calls :
    /\ c # d
    /\ op[c] = "get_data" /\ Done(c) /\ outcome[c] = TransportFailure
    /\ op[d] \in AuthOps /\ pc[d] = "sent"
    /\ RealToken(token) /\ req[d].token = token /\ req[c].token = token

(***************************************************************************)
(* C9.  No call posts more than one request; a call that ended in a        *)
(* transport failure or was answered with a non-success status has raised  *)
(* to its caller, and the request it posted went to its own endpoint, not  *)
(* to the login endpoint.                                                  *)
(***************************************************************************)
C9_OneRequestNoRetry ==
  \A c \in Calls :
    /\ nsent[c] <= 1
    /\ nsent[c] = 1 => req[c].endpoint = Endpoint(op[c])
    /\ pc[c] \in {"idle", "ready"} => nsent[c] = 0
    /\ reply[c] = TransportError => Done(c) /\ outcome[c] = TransportFailure
    /\ (Answered(c) /\ Status(c) \notin {JInt(1), JInt(201)}) =>
         outcome[c].kind = "raise"

\* A login and an authenticated call have each failed after one request, one
\* on the transport and one on its status.
C9_Witness ==
  \E c, d \in Calls :
    /\ op[c] = "login" /\ reply[c] = TransportError /\ nsent[c] = 1
    /\ op[d] \in AuthOps /\ Answered(d) /\ Status(d) = JInt(0) /\ nsent[d] = 1
    /\ outcome[d].kind = "raise"

(***************************************************************************)
(* C10.  While authenticated calls run side by side and no login runs, the *)
(* token stays what each call found it to be, every request carries that   *)
(* token, and a call's outcome is settled by its own response: calls of    *)
(* the same operation with the same response end alike, and no step of     *)
(* another call changes what a call has received or hands back.            *)
(***************************************************************************)
C10_State ==
  /\ \A c \in Calls :
       (op[c] \in AuthOps /\ InProgress(c)) => token = chk[c]
  /\ \A c \in Calls :
       (op[c] \in AuthOps /\ nsent[c] > 0) => req[c].token = chk[c]
  /\ \A c, d \in Calls :
       (/\ op[c] \in AuthOps /\ op[d] = op[c]
        /\ Done(c) /\ Done(d) /\ reply[c] = reply[d]
        /\ RequireToken(chk[c]) = RequireToken(chk[d])) =>
         outcome[c] = outcome[d] /\ warnings[c] = warnings[d]

C10_Frame ==
  \A c \in Calls :
    pc'[c] = pc[c] =>
      /\ outcome'[c] = outcome[c] /\ reply'[c] = reply[c]
      /\ req'[c] = req[c] /\ warnings'[c] = warnings[c]

C10_ConcurrentCallsIndependent == []C10_State /\ [][C10_Frame]_vars

\* A get_data request is in flight with the token a refused set_away_mode call
\* beside it has used.
C10_Witness ==
  \E c, d \in Calls :
    /\ c # d
    /\ op[c] = "get_data" /\ pc[c] = "sent"
    /\ op[d] = "set_away_mode" /\ Answered(d) /\ Status(d) = JInt(0)
    /\ RealToken(token) /\ req[c].token = token /\ req[d].token = token

(***************************************************************************)
(* Vocabulary of the properties of the zone record.                        *)
(***************************************************************************)
Decoded == zone.pc \in {"decoded", "classified", "validated"}
Classified == zone.pc \in {"classified", "validated"}
RawField(f) == IF Has(zone.raw, f) THEN zone.raw.o[f] ELSE Absent
DecodedField(f) == zone.decoded.o[f]

(***************************************************************************)
(* C11.  Once a decoded zone has been classified, get_device_type has      *)
(* returned one of the two kinds: SOCKET where the zone's actual           *)
(* temperature is the text "255.255" or its name is a text containing      *)
(* "Socket", THERMOSTAT in every other case, the zones whose record had    *)
(* no name or no actual temperature among them.                            *)
(***************************************************************************)
C11_ClassifyReturnsKind ==
  Classified =>
    LET temp == DecodedField("ACTUAL_TEMP")
        name == DecodedField("ZONE_NAME")
        socket == \/ temp = JStr("255.255")
                  \/ name.t = "str" /\ Contains(name.s, "Socket")
    IN /\ zone.kind.kind = "return"
       /\ zone.kind.value = IF socket THEN JStr("SOCKET") ELSE JStr("THERMOSTAT")

(***************************************************************************)
(* C12.  is_valid_temperature applied to a zone's actual temperature       *)
(* answers true for every value when the kind is SOCKET; when the kind is  *)
(* THERMOSTAT it answers true exactly where the value is a text that       *)
(* float() parses to a number from 0 to 50, both ends included (or is such *)
(* a number already), and so false for text that is no number, for text    *)
(* naming nan, for an absent temperature and for "255.255".                *)
(***************************************************************************)
C12_ValidTemperature ==
  zone.pc = "validated" =>
    LET temp == DecodedField("ACTUAL_TEMP")
        parsed == IF temp.t = "str" THEN PyFloat(temp.s) ELSE FloatFail
        inRange == \/ /\ temp.t = "str" /\ parsed.ok /\ parsed.kind = "num"
                      /\ 0 <= parsed.milli /\ parsed.milli <= 50 * 1000
                   \/ /\ temp.t = "float" /\ temp.s = ""
                      /\ 0 <= temp.n /\ temp.n <= 50 * 1000
    IN /\ zone.askedKind = "SOCKET" => zone.valid
       /\ zone.askedKind = "THERMOSTAT" =>
            /\ zone.valid <=> inRange
            /\ temp \in {JNull, JStr("abc"), JStr("nan"), JStr("255.255"),
                         JStr("50.001"), JStr("-0.5")} => ~zone.valid
            /\ temp \in {JStr("0"), JStr("50"), JStr("21.5"), JStr(" 7 "), JStr("1e1")}
                 => zone.valid

\* The reading "255.255" has been judged as a thermostat's and found invalid.
C12_Witness ==
  /\ zone.pc = "validated"
  /\ zone.askedKind = "THERMOSTAT"
  /\ DecodedField("ACTUAL_TEMP") = JStr("255.255")
  /\ ~zone.valid

(***************************************************************************)
(* C13.  LiveInfoDevice.from_dict does not fail on a record whatever its   *)
(* floor temperature, hold-cool, cool temperature, hold temperature and    *)
(* program temperature hold; in the decoded zone each of the five is 0.0   *)
(* where the record had no such field, the number the text stands for      *)
(* where the field was a text float() parses, and 0.0 where it was a text  *)
(* float() does not parse.                                                 *)
(***************************************************************************)
C13_FloatFieldsDecode ==
  /\ zone.pc # "failed"
  /\ Decoded =>
       \A f \in {"CURRENT_FLOOR_TEMPERATURE", "HOLD_COOL", "COOL_TEMP", "HOLD_TEMP",
                 "PRG_TEMP"} :
         LET raw == RawField(f)
             parsed == IF raw # Absent /\ raw.t = "str" THEN PyFloat(raw.s) ELSE FloatFail
         IN /\ raw = Absent => DecodedField(f) = JFloat(0)
            /\ (raw # Absent /\ raw.t = "str") =>
                 /\ DecodedField(f).t = "float"
                 /\ ~parsed.ok => DecodedField(f) = JFloat(0)
                 /\ (parsed.ok /\ parsed.kind = "num") => DecodedField(f) = JFloat(parsed.milli)
            /\ raw = JStr("20.5") => DecodedField(f) = JFloat(20500)
            /\ raw = JStr("-3") => DecodedField(f) = JFloat(0 - 3000)
            /\ raw = JStr("1_0e-1") => DecodedField(f) = JFloat(1000)
            /\ raw \in {JStr("n/a"), JStr("")} => DecodedField(f) = JFloat(0)

\* A record whose program temperature was the text "n/a" has been decoded,
\* with 0.0 in its place and 0.0 for the fields it did not have.
C13_Witness ==
  /\ Decoded
  /\ RawField("PRG_TEMP") = JStr("n/a")
  /\ DecodedField("PRG_TEMP") = JFloat(0)
  /\ RawField("HOLD_TEMP") = Absent
  /\ DecodedField("HOLD_TEMP") = JFloat(0)

(***************************************************************************)
(* C14.  In a decoded zone the available modes and the recent temperatures *)
(* are each a list, never None and never a bare text: the empty list where *)
(* the record had no such field, the list of exactly that one text where   *)
(* the field was a text, and the record's own list where it was a list.    *)
(***************************************************************************)
C14_ListFieldsDecode ==
  Decoded =>
    \A f \in {"AVAILABLE_MODES", "RECENT_TEMPS"} :
      LET raw == RawField(f)
      IN /\ DecodedField(f).t = "list"
         /\ raw = Absent => DecodedField(f) = JList(<<>>)
         /\ (raw # Absent /\ raw.t = "str") => DecodedField(f) = JList(<<raw>>)
         /\ (raw # Absent /\ raw.t = "list") => DecodedField(f) = raw

(***************************************************************************)
(* Vocabulary of the properties of the dashboard.                          *)
(***************************************************************************)
InPass == app.pc \in {"loop", "returned"}
IsError(p) == Len(p.Issue) >= 7 /\ SubSeq(p.Issue, 1, 7) = "Error: "
ProblemsAt(j) == {k \in 1..Len(app.problems) : app.problems[k].at = j}

\* get_data for the device under examination has ended and this step takes
\* its outcome.
CollectStep ==
  /\ app.pc = "loop" /\ op[1] = "get_data" /\ pc[1] = "done" /\ pc'[1] = "idle"

\* The outcome in slot 1 is a failure to fetch, or zone data the processing
\* fails on: no CACHE_VALUE, no live_info, or a zone without a name that is
\* not recognised as a socket by its temperature.
FetchFailed == outcome[1].kind = "raise"

ProcessingFails ==
  /\ outcome[1].kind = "return"
  /\ \/ ~Has(outcome[1].value, "CACHE_VALUE")
     \/ ~Has(outcome[1].value.o["CACHE_VALUE"], "live_info")
     \/ LET q == outcome[1].value.o["CACHE_VALUE"].o["live_info"].o["devices"].l
        IN \E k \in 1..Len(q) :
             q[k].o["ZONE_NAME"].t = "null" /\ q[k].o["ACTUAL_TEMP"] # JStr("255.255")

(***************************************************************************)
(* C15.  In get_problematic_zones a failure while fetching or processing   *)
(* the zone data of one device adds, after the issue records written so    *)
(* far, an error record for that device, and the pass goes on with the     *)
(* next device; the devices are examined one by one in the order of the    *)
(* list, a device that is online only once its get_data call has ended;    *)
(* the pass never ends in a failure, and where it has returned it has      *)
(* gone through the whole list.                                            *)
(***************************************************************************)
C15_State ==
  /\ app.pc \in {"login", "loop", "returned"}
  /\ InPass => app.i \in 1..(Len(app.devices) + 1)
  /\ app.pc = "returned" => app.i = Len(app.devices) + 1

C15_Step ==
  /\ (CollectStep /\ (FetchFailed \/ ProcessingFails)) =>
       /\ Len(app'.problems) > Len(app.problems)
       /\ SubSeq(app'.problems, 1, Len(app.problems)) = app.problems
       /\ LET last == app'.problems[Len(app'.problems)]
          IN /\ IsError(last)
             /\ last.at = app.i
             /\ last.Zone = AllZones
             /\ last.Device = app.devices[app.i].o["devicename"]
       /\ app'.pc = "loop"
  /\ (app.pc = "loop" /\ app'.i # app.i) =>
       /\ app.i <= Len(app.devices)
       /\ app'.i = app.i + 1
       /\ app'.devices = app.devices
       /\ \/ ~Truthy(app.devices[app.i].o["online"])
          \/ CollectStep

C15_FailureDoesNotStopPass == []C15_State /\ [][C15_Step]_vars

\* The pass has returned after the processing for the first of two devices
\* failed with issue records already written for it, and the second device
\* has its record too.
C15_Witness ==
  /\ app.pc = "returned" /\ Len(app.devices) = 2
  /\ \E k \in ProblemsAt(1) : IsError(app.problems[k])
  /\ \E k \in ProblemsAt(1) : ~IsError(app.problems[k])
  /\ ProblemsAt(2) # {}

(***************************************************************************)
(* C16.  During and after a pass of get_problematic_zones, every device    *)
(* of the list whose online flag is false (or not set) has, once the pass  *)
(* is beyond it, exactly one issue record, "Device Offline" for "All       *)
(* Zones", and none before; no request is sent for it: a request goes out  *)
(* only while a device that is online is under examination, and the step   *)
(* past an offline device sends nothing.  The zone-level records (invalid  *)
(* temperature, low battery, window open) belong to devices that are       *)
(* online, and an invalid-temperature record to a zone that is neither     *)
(* reading "255.255" nor named "...Socket...", that is, a THERMOSTAT.      *)
(***************************************************************************)
ZoneLevelIssues == {"Invalid Temperature Reading: ", "Low Battery", "Window Open"}

C16_State ==
  InPass =>
    /\ \A j \in 1..Len(app.devices) :
         ~Truthy(app.devices[j].o["online"]) =>
           IF j < app.i
           THEN \E k \in 1..Len(app.problems) :
                  /\ ProblemsAt(j) = {k}
                  /\ app.problems[k] =
                       [at |-> j, Device |-> app.devices[j].o["devicename"],
                        Zone |-> JStr("All Zones"), Issue |-> "Device Offline",
                        detail |-> JNull]
           ELSE ProblemsAt(j) = {}
    /\ \A k \in 1..Len(app.problems) :
         LET p == app.problems[k]
         IN /\ p.Issue \in ZoneLevelIssues => Truthy(app.devices[p.at].o["online"])
            /\ p.Issue = "Invalid Temperature Reading: " =>
                 /\ p.detail # JStr("255.255")
                 /\ ~(p.Zone.t = "str" /\ Contains(p.Zone.s, "Socket"))

C16_Step ==
  /\ (InPass /\ nsent'[1] > nsent[1]) =>
       /\ app.pc = "loop" /\ app.i <= Len(app.devices)
       /\ Truthy(app.devices[app.i].o["online"])
       /\ op[1] = "get_data"
  /\ (app.pc = "loop" /\ app'.i # app.i /\ ~Truthy(app.devices[app.i].o["online"])) =>
       /\ pc[1] = "idle" /\ pc'[1] = "idle"
       /\ nsent' = nsent

C16_OfflineDevicesOneRecord == []C16_State /\ [][C16_Step]_vars

\* A pass over an offline device and an online one has returned: the offline
\* one has its single record, the online one an invalid-temperature record
\* for its zone "Attic".
C16_Witness ==
  /\ app.pc = "returned" /\ Len(app.devices) = 2
  /\ ~Truthy(app.devices[1].o["online"]) /\ Truthy(app.devices[2].o["online"])
  /\ Cardinality(ProblemsAt(1)) = 1
  /\ \E k \in ProblemsAt(2) :
       /\ app.problems[k].Issue = "Invalid Temperature Reading: "
       /\ app.problems[k].Zone = JStr("Attic")

(***************************************************************************)
(* C17.  Whenever a login call ends in failure, whatever the reason (the   *)
(* transport failed, the response's STATUS was not 1, the device list was  *)
(* missing or could not be decoded), the client's token after the call is  *)
(* the token it held before: none on a fresh client, the earlier one on a  *)
(* client that had logged in.                                              *)
(***************************************************************************)
C17_AnyFailedLoginKeepsToken ==
  [][\A c \in Calls :
       (op[c] = "login" /\ pc[c] = "sent" /\ pc'[c] = "done"
          /\ outcome'[c].kind = "raise") => token' = token]_vars

(***************************************************************************)
(* C18, as stated.  In every state the client's token is unset, or it is   *)
(* the TOKEN of the latest login response whose STATUS was 1.              *)
(***************************************************************************)
C18_TokenIsLatestGrant ==
  \/ token = JNull
  \/ granted.last # NoReply /\ token = granted.last

(***************************************************************************)
(* C18, amended.  In every state the client's token is unset where no      *)
(* login response with STATUS 1 and a TOKEN has been received yet, and     *)
(* otherwise it is the TOKEN of the latest login response that had STATUS  *)
(* 1 and a TOKEN: a response with STATUS 1 but without a TOKEN makes the   *)
(* login fail and leaves the token as it was.                              *)
(***************************************************************************)
C18_TokenIsLatestGrantedToken ==
  IF granted.token = NoReply THEN token = JNull ELSE token = granted.token

\* A client that had logged in has received a login response with STATUS 1
\* and no TOKEN, and still holds its earlier token.
C18_Witness ==
  /\ RealToken(token)
  /\ granted.last = Absent
  /\ granted.token = token
  /\ \E c \in Calls :
       /\ op[c] = "login" /\ Answered(c) /\ Status(c) = JInt(1)
       /\ ~Has(reply[c], "TOKEN")

(***************************************************************************)
(* C19.  With logins and authenticated operations running on the same      *)
(* client in any interleaving, the token an authenticated operation has    *)
(* put into its request is the token its not-logged-in test read: the test *)
(* and the use see one token.                                              *)
(***************************************************************************)
C19_CheckAndUseSeeOneToken ==
  \A c \in Calls :
    (op[c] \in AuthOps /\ nsent[c] > 0) => req[c].token = chk[c]

=============================================================================
